---- MODULE Spec2Model ----
(***************************************************************************)
(* Model of core/src/window_service.rs: the admission filter               *)
(* should_retransmit_and_persist, one invocation of recv_window, the       *)
(* ingest worker thread spawned by WindowService::new with its Finalizer   *)
(* and stall clock, and WindowService::join with the repair service.       *)
(***************************************************************************)
EXTENDS Integers, Sequences, FiniteSets, TLC

VARIABLES
    exit,            \* the shared Arc<AtomicBool> exit flag
    r,               \* inbound PacketReceiver: batches queued, oldest first
    senderAlive,     \* the upstream PacketSender has not been dropped
    retransmit,      \* batches the retransmit PacketSender delivered, in order
    retransmitOpen,  \* the retransmit receiver has not been dropped
    blocktree,       \* shreds the block store accepted, in insertion order
    blocktree_uid,   \* for each of them, the uid of the packet it came in
    bank_forks,      \* "none" (RepairRange) or "some" (RepairAll)
    working_bank,    \* bank_forks.working_bank(), advanced by the replay side
    pc,              \* position of the ingest worker thread
    packets,         \* recv_window: the local `packets.packets`
    verdict,         \* recv_window: per packet, the filter_map closure's result
    shreds,          \* recv_window: first component of the unzip
    packets_ix,      \* recv_window: second component of the unzip
    result,          \* what recv_window returned to the worker loop
    exitCause,       \* why the worker left its loop
    errors,          \* counter "streamer-window-error"
    nsent,           \* packets the producer has sent so far (numbers the uids)
    batch0,          \* the coalesced batch as it entered the parallel stage
    sendResult,      \* this invocation's retransmit.send: "none", "ok", "err"
    insertArg,       \* this invocation's argument of insert_shreds
    insertCalled,    \* insert_shreds was called in this invocation
    call,            \* one call of should_retransmit_and_persist (FilterSpec)
    repair_service,  \* the RepairService thread: "running", "done", "panicked"
    join_pc,         \* WindowService::join: where the caller stands
    join_ret,        \* what join returned: "none", "Ok", "Err"
    time,            \* seconds since the service was built
    now,             \* the worker's `now`: the Instant it last took
    last_recv,       \* when a batch was last taken from the inbound channel
    warnings,        \* "Window does not seem to be receiving data" warnings
    walk             \* one retain-by-index walk, step by step (RetainSpec)

vars == <<exit, r, senderAlive, retransmit, retransmitOpen, blocktree,
          blocktree_uid,
          bank_forks, working_bank, pc, packets, verdict, shreds,
          packets_ix, result, exitCause, errors, nsent, batch0, sendResult,
          insertArg, insertCalled, call, repair_service, join_pc, join_ret,
          time, now, last_recv, warnings, walk>>

env == <<senderAlive, retransmitOpen, bank_forks, working_bank>>
svc == <<repair_service, join_pc, join_ret>>
clock == <<time, now, last_recv, warnings>>
locals == <<packets, verdict, shreds, packets_ix, batch0, sendResult,
            insertArg, insertCalled>>

----------------------------------------------------------------------------
(* Bounds of the model *)

MaxBatchLen == 2    \* packets in one batch the producer sends
MaxPackets == 2     \* packets the producer sends in total
MaxQueue == 2       \* batches queued in the inbound channel at once
MaxBank == 1        \* times the working bank advances
TickSecs == 15      \* seconds the clock advances in one step
MaxTime == 45       \* seconds the clock runs
MaxCalls == 2       \* calls of should_retransmit_and_persist in a row
MaxWalkLen == 4     \* packets in a batch the retain walk is run on

\* Duration::from_secs(30), the stall-warning threshold
StallSecs == 30

----------------------------------------------------------------------------
(* Identities, banks, shreds and their wire format *)

Keys == {"me", "leaderA", "leaderB"}
NoLeader == "no_leader"
\* Option<Arc<Bank>>: {} is None, {b} is Some(bank b)
NoBank == {}
SomeBank(b) == {b}
Banks == 0..MaxBank
Slots == 0..2

\* the node identity `id` the worker reads from cluster_info
id == "me"

\* A decoded shred: slot, seed and a signature (who signed, over which slot).
Shreds == [slot : Slots, seed : 1..4, sig : [by : Keys, over : Slots]]

\* Shred::slot and Shred::seed
ShredSlot(shred) == shred.slot
ShredSeed(shred) == shred.seed

\* bincode::serialize of a shred: a tagged flat buffer
Serialize(shred) ==
    [tag |-> 1, slot |-> shred.slot, seed |-> shred.seed,
     by |-> shred.sig.by, over |-> shred.sig.over]

\* Packet::default().data: an all-zero buffer
ZeroData == [tag |-> 0, slot |-> 0, seed |-> 0, by |-> "zero", over |-> 0]

\* bincode::deserialize(&packet.data): Ok(shred) or Err
DeserializeOk(data) == data.tag = 1
Deserialize(data) ==
    [slot |-> data.slot, seed |-> data.seed,
     sig |-> [by |-> data.by, over |-> data.over]]

\* Shred::fast_verify(shred_buf, pubkey): the shred's signature is by pubkey
\* and covers the bytes given
FastVerify(shred, shred_buf, pubkey) ==
    /\ shred.sig.by = pubkey
    /\ shred_buf.tag = 1
    /\ shred.sig.over = shred_buf.slot

\* LeaderScheduleCache::slot_leader_at(slot, bank): slot 0 is leaderA's,
\* slot 1 is this node's, slot 2 lies in an epoch only a later bank knows
slot_leader_at(slot, bank) ==
    CASE slot = 0 -> "leaderA"
      [] slot = 1 -> "me"
      [] slot = 2 /\ (\E b \in bank : b >= 1) -> "leaderB"
      [] OTHER -> NoLeader

DefaultMeta == [slot |-> 0, seed |-> 0]

----------------------------------------------------------------------------
(* should_retransmit_and_persist: the result and the counter it emits *)

\* mutant: the self-origin rule is missing
Srp_NoSelfCheck(shred, shred_buf, bank, my_pubkey) ==
    LET slot_leader_pubkey == slot_leader_at(ShredSlot(shred), bank) IN
    IF slot_leader_pubkey # NoLeader
    THEN IF ~FastVerify(shred, shred_buf, slot_leader_pubkey)
         THEN [ret |-> FALSE, counter |-> "invalid_signature"]
         ELSE [ret |-> TRUE, counter |-> "none"]
    ELSE [ret |-> FALSE, counter |-> "unknown_leader"]

\* mutant: the signature is verified before the self-origin test
Srp_VerifyFirst(shred, shred_buf, bank, my_pubkey) ==
    LET slot_leader_pubkey == slot_leader_at(ShredSlot(shred), bank) IN
    IF slot_leader_pubkey # NoLeader
    THEN IF ~FastVerify(shred, shred_buf, slot_leader_pubkey)
         THEN [ret |-> FALSE, counter |-> "invalid_signature"]
         ELSE IF slot_leader_pubkey = my_pubkey
              THEN [ret |-> FALSE, counter |-> "circular_transmission"]
              ELSE [ret |-> TRUE, counter |-> "none"]
    ELSE [ret |-> FALSE, counter |-> "unknown_leader"]

should_retransmit_and_persist(shred, shred_buf, bank, my_pubkey) ==
    LET slot_leader_pubkey == slot_leader_at(ShredSlot(shred), bank) IN
    IF slot_leader_pubkey # NoLeader
    THEN IF slot_leader_pubkey = my_pubkey
         THEN [ret |-> FALSE, counter |-> "circular_transmission"]
         ELSE IF ~FastVerify(shred, shred_buf, slot_leader_pubkey)
              THEN [ret |-> FALSE, counter |-> "invalid_signature"]
              ELSE [ret |-> TRUE, counter |-> "none"]
    ELSE [ret |-> FALSE, counter |-> "unknown_leader"]

\* the admission-filter closure handed to WindowService::new
shred_filter(my_pubkey, shred, shred_buf, bank) ==
    should_retransmit_and_persist(shred, shred_buf, bank, my_pubkey).ret

----------------------------------------------------------------------------
(* recv_window: the pure parts *)

Todo == [st |-> "todo"]
None == [st |-> "none"]
Some(shred) == [st |-> "some", shred |-> shred]

\* the filter_map closure on one packet, given the bank the filter closure read
FilterMap(packet, bank) ==
    IF DeserializeOk(packet.data)
    THEN LET shred == Deserialize(packet.data) IN
         IF shred_filter(id, shred, packet.data, bank)
         THEN Some(shred)
         ELSE None
    ELSE None

\* mutant: the closure writes meta.slot and forgets meta.seed
MetaAfter_NoSeed(packet, v) ==
    IF v.st = "some"
    THEN [slot |-> ShredSlot(v.shred), seed |-> packet.meta.seed]
    ELSE packet.meta

\* the meta the closure leaves in the packet
MetaAfter(packet, v) ==
    IF v.st = "some"
    THEN [slot |-> ShredSlot(v.shred), seed |-> ShredSeed(v.shred)]
    ELSE packet.meta

\* .unzip() of the indexed parallel iterator: the Some results in index order
RECURSIVE UnzipShreds(_, _)
UnzipShreds(v, n) ==
    IF n = 0 THEN <<>>
    ELSE IF v[n].st = "some"
         THEN Append(UnzipShreds(v, n - 1), v[n].shred)
         ELSE UnzipShreds(v, n - 1)

RECURSIVE UnzipIx(_, _)
UnzipIx(v, n) ==
    IF n = 0 THEN <<>>
    ELSE IF v[n].st = "some"
         THEN Append(UnzipIx(v, n - 1), n - 1)
         ELSE UnzipIx(v, n - 1)

Min(a, b) == IF a < b THEN a ELSE b

\* packets.packets.retain(..) with the cursor retain_ix into packets_ix;
\* i and retain_ix count from 0 as in the source
RECURSIVE RetainFrom(_, _, _, _)
RetainFrom(pk, ix, i, retain_ix) ==
    IF i >= Len(pk) THEN <<>>
    ELSE IF ix # <<>> /\ i = ix[retain_ix + 1]
         THEN <<pk[i + 1]>> \o
              RetainFrom(pk, ix, i + 1, Min(Len(ix) - 1, retain_ix + 1))
         ELSE RetainFrom(pk, ix, i + 1, retain_ix)

Reverse(q) == [k \in 1..Len(q) |-> q[Len(q) + 1 - k]]

\* mutant: the kept packets are collected back to front
Retain_Reversed(pk, ix) == Reverse(RetainFrom(pk, ix, 0, 0))

\* mutant: the cursor retain_ix is never advanced
Retain_NoAdvance(pk, ix) ==
    IF ix = <<>> THEN <<>> ELSE <<pk[ix[1] + 1]>>

Retain(pk, ix) == RetainFrom(pk, ix, 0, 0)

----------------------------------------------------------------------------
(* What the upstream producer puts on the wire *)

ProducerShreds ==
    { [slot |-> 0, seed |-> 1, sig |-> [by |-> "leaderA", over |-> 0]],
      [slot |-> 1, seed |-> 4, sig |-> [by |-> "me", over |-> 1]],
      [slot |-> 2, seed |-> 2, sig |-> [by |-> "leaderB", over |-> 2]] }

ProducerData == {ZeroData} \cup {Serialize(s) : s \in ProducerShreds}

\* a batch of n fresh packets carrying the data d[1..n]; uid numbers the
\* packets in the order they were sent
NewBatch(d, first) ==
    [k \in 1..Len(d) |-> [data |-> d[k], meta |-> DefaultMeta, uid |-> first + k]]

DataSeqs == UNION {[1..n -> ProducerData] : n \in 0..MaxBatchLen}

----------------------------------------------------------------------------
(* Initial state: WindowService::new has spawned the worker *)

IdleCall == [st |-> "idle"]

InitBase ==
    /\ exit = FALSE
    /\ r = <<>>
    /\ senderAlive = TRUE
    /\ retransmit = <<>>
    /\ retransmitOpen = TRUE
    /\ blocktree = <<>>
    /\ blocktree_uid = <<>>
    /\ bank_forks \in {"none", "some"}
    /\ working_bank = 0
    /\ pc = "spawned"
    /\ packets = <<>>
    /\ verdict = <<>>
    /\ shreds = <<>>
    /\ packets_ix = <<>>
    /\ result = "none"
    /\ exitCause = "none"
    /\ errors = 0
    /\ nsent = 0
    /\ batch0 = <<>>
    /\ sendResult = "none"
    /\ insertArg = <<>>
    /\ insertCalled = FALSE
    /\ repair_service = "running"
    /\ join_pc = "idle"
    /\ join_ret = "none"
    /\ time = 0
    /\ now = 0
    /\ last_recv = 0
    /\ warnings = 0

IdleWalk == [st |-> "idle"]

Init == InitBase /\ call = IdleCall /\ walk = IdleWalk

----------------------------------------------------------------------------
(* The environment of the worker *)

\* the upstream receiver sends one batch; once the worker thread has ended,
\* the PacketReceiver it owned is dropped and a send fails
ProducerSend ==
    /\ senderAlive
    /\ pc # "exited"
    /\ Len(r) < MaxQueue
    /\ \E d \in DataSeqs :
          /\ nsent + Len(d) <= MaxPackets
          /\ r' = Append(r, NewBatch(d, nsent))
          /\ nsent' = nsent + Len(d)
    /\ UNCHANGED <<exit, senderAlive, retransmit, retransmitOpen, blocktree,
                   blocktree_uid, bank_forks, working_bank, pc, result,
                   exitCause, errors, call, svc, walk, clock>>
    /\ UNCHANGED locals

\* the upstream sender is dropped: the inbound channel disconnects
ProducerClose ==
    /\ senderAlive
    /\ senderAlive' = FALSE
    /\ UNCHANGED <<exit, r, retransmit, retransmitOpen, blocktree,
                   blocktree_uid, bank_forks, working_bank, pc, result,
                   exitCause, errors, nsent, call, svc, walk, clock>>
    /\ UNCHANGED locals

\* the retransmit stage drops its receiver
ConsumerDrop ==
    /\ retransmitOpen
    /\ retransmitOpen' = FALSE
    /\ UNCHANGED <<exit, r, senderAlive, retransmit, blocktree,
                   blocktree_uid, bank_forks, working_bank, pc, result,
                   exitCause, errors, nsent, call, svc, walk, clock>>
    /\ UNCHANGED locals

\* another holder of the flag stores true (exit.store(true, Relaxed))
ExternalSetExit ==
    /\ ~exit
    /\ exit' = TRUE
    /\ UNCHANGED <<r, senderAlive, retransmit, retransmitOpen, blocktree,
                   blocktree_uid, bank_forks, working_bank, pc, result,
                   exitCause, errors, nsent, call, svc, walk, clock>>
    /\ UNCHANGED locals

\* the replay side advances the working bank of the bank-forks view
SetWorkingBank ==
    /\ bank_forks = "some"
    /\ working_bank < MaxBank
    /\ working_bank' = working_bank + 1
    /\ UNCHANGED <<exit, r, senderAlive, retransmit, retransmitOpen,
                   blocktree, blocktree_uid, bank_forks, pc, result,
                   exitCause, errors, nsent, call, svc, walk, clock>>
    /\ UNCHANGED locals

----------------------------------------------------------------------------
(* The ingest worker thread *)

ClearLocals ==
    /\ packets' = <<>>
    /\ verdict' = <<>>
    /\ shreds' = <<>>
    /\ packets_ix' = <<>>
    /\ batch0' = <<>>
    /\ sendResult' = "none"
    /\ insertArg' = <<>>
    /\ insertCalled' = FALSE

\* the worker leaves its closure by `break` or by a panic; what remains is
\* the drop of its locals, the Finalizer among them
LeaveLoop(cause) ==
    /\ pc' = "unwinding"
    /\ exitCause' = cause
    /\ result' = "none"
    /\ ClearLocals

\* Finalizer::new, the read of the node id, the build of the thread pool;
\* either unwrap may panic
WorkerStart ==
    /\ pc = "spawned"
    /\ \/ /\ pc' = "loop_top"
          /\ now' = time
          /\ UNCHANGED <<result, exitCause>>
          /\ UNCHANGED locals
       \/ /\ LeaveLoop("panic")
          /\ UNCHANGED now
    /\ UNCHANGED <<exit, r, retransmit, blocktree, blocktree_uid, errors,
                   nsent, call, svc, walk, time, last_recv, warnings>>
    /\ UNCHANGED env

\* mutant: the worker sees the flag and goes on to receive what is queued
LoopTop_NoBreak ==
    /\ pc = "loop_top"
    /\ pc' = "recv"
    /\ exitCause' = IF exit THEN "exit_flag" ELSE exitCause
    /\ UNCHANGED result
    /\ UNCHANGED locals
    /\ UNCHANGED <<exit, r, retransmit, blocktree, blocktree_uid, errors,
                   nsent, call, svc, walk, clock>>
    /\ UNCHANGED env

\* loop { if exit.load(Relaxed) { break; } ..
LoopTop ==
    /\ pc = "loop_top"
    /\ IF exit
       THEN LeaveLoop("exit_flag")
       ELSE /\ pc' = "recv"
            /\ UNCHANGED <<result, exitCause>>
            /\ UNCHANGED locals
    /\ UNCHANGED <<exit, r, retransmit, blocktree, blocktree_uid, errors,
                   nsent, call, svc, walk, clock>>
    /\ UNCHANGED env

\* mutant: an idle channel yields an empty batch instead of a Timeout
RecvTimeout_EmptyBatch ==
    /\ pc = "recv"
    /\ IF r # <<>>
       THEN /\ packets' = Head(r)
            /\ r' = Tail(r)
            /\ pc' = "drain"
            /\ UNCHANGED result
       ELSE IF senderAlive
            THEN /\ pc' = "drain"
                 /\ UNCHANGED <<r, packets, result>>
            ELSE /\ result' = "Disconnected"
                 /\ pc' = "dispatch"
                 /\ UNCHANGED <<r, packets>>
    /\ UNCHANGED <<exit, retransmit, blocktree, blocktree_uid, exitCause,
                   errors, nsent, call, svc, walk, clock, verdict, shreds,
                   packets_ix, batch0, sendResult, insertArg, insertCalled>>
    /\ UNCHANGED env

\* mutant: a closed channel reports Disconnected although batches are queued
RecvTimeout_DisconnectFirst ==
    /\ pc = "recv"
    /\ IF r # <<>> /\ senderAlive
       THEN /\ packets' = Head(r)
            /\ r' = Tail(r)
            /\ pc' = "drain"
            /\ last_recv' = time
            /\ UNCHANGED result
       ELSE /\ result' = IF senderAlive THEN "Timeout" ELSE "Disconnected"
            /\ pc' = "dispatch"
            /\ UNCHANGED <<r, packets, last_recv>>
    /\ UNCHANGED <<exit, retransmit, blocktree, blocktree_uid, exitCause,
                   errors, nsent, call, svc, walk, time, now, warnings,
                   verdict, shreds, packets_ix, batch0, sendResult,
                   insertArg, insertCalled>>
    /\ UNCHANGED env

\* let mut packets = r.recv_timeout(timer)?;
RecvTimeout ==
    /\ pc = "recv"
    /\ IF r # <<>>
       THEN /\ packets' = Head(r)
            /\ r' = Tail(r)
            /\ pc' = "drain"
            /\ last_recv' = time
            /\ UNCHANGED result
       ELSE /\ result' = IF senderAlive THEN "Timeout" ELSE "Disconnected"
            /\ pc' = "dispatch"
            /\ UNCHANGED <<r, packets, last_recv>>
    /\ UNCHANGED <<exit, retransmit, blocktree, blocktree_uid, exitCause,
                   errors, nsent, call, svc, walk, time, now, warnings,
                   verdict, shreds, packets_ix, batch0, sendResult,
                   insertArg, insertCalled>>
    /\ UNCHANGED env

\* mutant: the drained batch is put in front of the packets already held
TryRecv_Prepend ==
    /\ pc = "drain"
    /\ IF r # <<>>
       THEN /\ packets' = Head(r) \o packets
            /\ r' = Tail(r)
            /\ UNCHANGED <<pc, verdict, batch0>>
       ELSE /\ pc' = "filter"
            /\ verdict' = [k \in 1..Len(packets) |-> Todo]
            /\ batch0' = packets
            /\ UNCHANGED <<r, packets>>
    /\ UNCHANGED <<exit, retransmit, blocktree, blocktree_uid, result,
                   exitCause, errors, nsent, call, svc, walk, clock, shreds,
                   packets_ix, sendResult, insertArg, insertCalled>>
    /\ UNCHANGED env

\* while let Ok(mut more_packets) = r.try_recv() { packets.append(..) }
TryRecv ==
    /\ pc = "drain"
    /\ IF r # <<>>
       THEN /\ packets' = packets \o Head(r)
            /\ r' = Tail(r)
            /\ last_recv' = time
            /\ UNCHANGED <<pc, verdict, batch0>>
       ELSE /\ pc' = "filter"
            /\ verdict' = [k \in 1..Len(packets) |-> Todo]
            /\ batch0' = packets
            /\ UNCHANGED <<r, packets, last_recv>>
    /\ UNCHANGED <<exit, retransmit, blocktree, blocktree_uid, result,
                   exitCause, errors, nsent, call, svc, walk, time, now,
                   warnings, shreds, packets_ix, sendResult, insertArg,
                   insertCalled>>
    /\ UNCHANGED env

\* what the filter closure passes as the bank: bank_forks.as_ref().map(
\* |bank_forks| bank_forks.read().unwrap().working_bank())
BankRead == IF bank_forks = "some" THEN SomeBank(working_bank) ELSE NoBank

\* one pool worker runs the filter_map closure on packet i (counted from 1);
\* the pool takes the packets in any order
FilterStep(i) ==
    /\ pc = "filter"
    /\ verdict[i] = Todo
    /\ \/ LET v == FilterMap(packets[i], BankRead) IN
          /\ verdict' = [verdict EXCEPT ![i] = v]
          /\ packets' = [packets EXCEPT ![i].meta = MetaAfter(packets[i], v)]
          /\ UNCHANGED <<pc, result, exitCause, shreds, packets_ix, batch0,
                         sendResult, insertArg, insertCalled>>
       \/ \* the bank-forks lock is poisoned: read().unwrap() panics
          /\ DeserializeOk(packets[i].data)
          /\ bank_forks = "some"
          /\ LeaveLoop("panic")
    /\ UNCHANGED <<exit, r, retransmit, blocktree, blocktree_uid, errors,
                   nsent, call, svc, walk, clock>>
    /\ UNCHANGED env

ParallelStage == \E i \in 1..Len(verdict) : FilterStep(i)

\* the pool has joined: .unzip() yields (shreds, packets_ix)
Unzip ==
    /\ pc = "filter"
    /\ \A k \in 1..Len(verdict) : verdict[k] # Todo
    /\ shreds' = UnzipShreds(verdict, Len(verdict))
    /\ packets_ix' = UnzipIx(verdict, Len(verdict))
    /\ pc' = "retain"
    /\ UNCHANGED <<exit, r, retransmit, blocktree, blocktree_uid, result,
                   exitCause, errors, nsent, call, svc, walk, clock, packets,
                   verdict, batch0, sendResult, insertArg, insertCalled>>
    /\ UNCHANGED env

\* packets.packets.retain(..)
RetainPackets ==
    /\ pc = "retain"
    /\ packets' = Retain(packets, packets_ix)
    /\ pc' = "send"
    /\ UNCHANGED <<exit, r, retransmit, blocktree, blocktree_uid, result,
                   exitCause, errors, nsent, call, svc, walk, clock, verdict,
                   shreds, packets_ix, batch0, sendResult, insertArg,
                   insertCalled>>
    /\ UNCHANGED env

\* mutant: retransmit.send(packets)? returns the send error to the caller
SendRetransmit_Propagates ==
    /\ pc = "send"
    /\ IF packets = <<>>
       THEN /\ sendResult' = "none"
            /\ pc' = "insert"
            /\ UNCHANGED <<retransmit, result>>
       ELSE IF retransmitOpen
            THEN /\ retransmit' = Append(retransmit, packets)
                 /\ sendResult' = "ok"
                 /\ pc' = "insert"
                 /\ UNCHANGED result
            ELSE /\ sendResult' = "err"
                 /\ pc' = "dispatch"
                 /\ result' = "SendError"
                 /\ UNCHANGED retransmit
    /\ UNCHANGED <<exit, r, blocktree, blocktree_uid, exitCause, errors,
                   nsent, call, svc, walk, clock, packets, verdict, shreds,
                   packets_ix, batch0, insertArg, insertCalled>>
    /\ UNCHANGED env

\* mutant: the batch is sent without the is_empty test
SendRetransmit_SendsEmpty ==
    /\ pc = "send"
    /\ IF retransmitOpen
       THEN /\ retransmit' = Append(retransmit, packets)
            /\ sendResult' = "ok"
       ELSE /\ sendResult' = "err"
            /\ UNCHANGED retransmit
    /\ pc' = "insert"
    /\ UNCHANGED <<exit, r, blocktree, blocktree_uid, result, exitCause,
                   errors, nsent, call, svc, walk, clock, packets, verdict,
                   shreds, packets_ix, batch0, insertArg, insertCalled>>
    /\ UNCHANGED env

\* mutant: the retained batch is not handed to the retransmit sender
SendRetransmit_Skipped ==
    /\ pc = "send"
    /\ pc' = "insert"
    /\ UNCHANGED <<exit, r, retransmit, blocktree, blocktree_uid, result,
                   exitCause, errors, nsent, call, svc, walk, clock, packets,
                   verdict, shreds, packets_ix, batch0, sendResult,
                   insertArg, insertCalled>>
    /\ UNCHANGED env

\* if !packets.packets.is_empty() { let _ = retransmit.send(packets); }
SendRetransmit ==
    /\ pc = "send"
    /\ IF packets = <<>>
       THEN /\ sendResult' = "none"
            /\ UNCHANGED retransmit
       ELSE IF retransmitOpen
            THEN /\ retransmit' = Append(retransmit, packets)
                 /\ sendResult' = "ok"
            ELSE /\ sendResult' = "err"
                 /\ UNCHANGED retransmit
    /\ pc' = "insert"
    /\ UNCHANGED <<exit, r, blocktree, blocktree_uid, result, exitCause,
                   errors, nsent, call, svc, walk, clock, packets, verdict,
                   shreds, packets_ix, batch0, insertArg, insertCalled>>
    /\ UNCHANGED env

\* Blocktree::insert_shreds: an empty sequence is a no-op, a non-empty one
\* is stored or fails
insert_shreds(s, ok) ==
    IF ok \/ s = <<>>
    THEN [store |-> blocktree \o s, res |-> "Ok"]
    ELSE [store |-> blocktree, res |-> "BlocktreeError"]

\* the uids of the packets the shreds were decoded from
SourceUids == [k \in 1..Len(shreds) |-> batch0[packets_ix[k] + 1].uid]

\* mutant: recv_window looks at the exit flag before it inserts
InsertShreds_ChecksExit ==
    /\ pc = "insert"
    /\ IF exit
       THEN /\ LeaveLoop("exit_flag")
            /\ UNCHANGED <<blocktree, blocktree_uid>>
       ELSE /\ \E ok \in (IF shreds = <<>> THEN {TRUE} ELSE BOOLEAN) :
                  /\ blocktree' = IF ok THEN blocktree \o shreds ELSE blocktree
                  /\ blocktree_uid' = IF ok THEN blocktree_uid \o SourceUids
                                      ELSE blocktree_uid
                  /\ result' = IF ok THEN "Ok" ELSE "BlocktreeError"
            /\ insertArg' = shreds
            /\ insertCalled' = TRUE
            /\ pc' = "dispatch"
            /\ UNCHANGED <<exitCause, packets, verdict, shreds, packets_ix,
                           batch0, sendResult>>
    /\ UNCHANGED <<exit, r, retransmit, errors, nsent, call, svc, walk,
                   clock>>
    /\ UNCHANGED env

\* blocktree.insert_shreds(shreds, Some(leader_schedule_cache))?; Ok(())
InsertShreds ==
    /\ pc = "insert"
    /\ \E ok \in (IF shreds = <<>> THEN {TRUE} ELSE BOOLEAN) :
          LET ins == insert_shreds(shreds, ok) IN
          /\ blocktree' = ins.store
          /\ blocktree_uid' = IF ins.res = "Ok"
                              THEN blocktree_uid \o SourceUids
                              ELSE blocktree_uid
          /\ result' = ins.res
    /\ insertArg' = shreds
    /\ insertCalled' = TRUE
    /\ pc' = "dispatch"
    /\ UNCHANGED <<exit, r, retransmit, exitCause, errors, nsent, call, svc,
                   walk, clock, packets, verdict, shreds, packets_ix, batch0,
                   sendResult>>
    /\ UNCHANGED env

\* mutant: any error but Timeout ends the loop
Dispatch_BreakOnError ==
    /\ pc = "dispatch"
    /\ IF result \in {"Disconnected", "BlocktreeError"}
       THEN /\ LeaveLoop(IF result = "Disconnected" THEN "disconnected"
                         ELSE "error")
            /\ errors' = IF result = "BlocktreeError" THEN errors + 1 ELSE errors
       ELSE /\ pc' = "loop_top"
            /\ result' = "none"
            /\ ClearLocals
            /\ UNCHANGED <<exitCause, errors>>
    /\ UNCHANGED <<exit, r, retransmit, blocktree, blocktree_uid, nsent,
                   call, svc, walk, clock>>
    /\ UNCHANGED env

\* mutant: the match arm RecvTimeoutError(_) => break takes Timeout too
Dispatch_TimeoutBreaks ==
    /\ pc = "dispatch"
    /\ IF result \in {"Disconnected", "Timeout"}
       THEN /\ LeaveLoop("disconnected")
            /\ UNCHANGED errors
       ELSE /\ errors' = IF result = "BlocktreeError" THEN errors + 1 ELSE errors
            /\ pc' = "loop_top"
            /\ result' = "none"
            /\ ClearLocals
            /\ UNCHANGED exitCause
    /\ UNCHANGED <<exit, r, retransmit, blocktree, blocktree_uid, nsent,
                   call, svc, walk, clock>>
    /\ UNCHANGED env

\* the Timeout arm: if now.elapsed() > Duration::from_secs(30) { warn!(..);
\* now = Instant::now(); }
StallWarning == time - now > StallSecs

\* the worker's match on what recv_window returned; `now` is taken anew when
\* recv_window returned Ok
Dispatch ==
    /\ pc = "dispatch"
    /\ IF result = "Disconnected"
       THEN /\ LeaveLoop("disconnected")
            /\ UNCHANGED <<errors, now, warnings>>
       ELSE /\ errors' = IF result = "BlocktreeError" THEN errors + 1 ELSE errors
            /\ now' = IF result = "Ok" \/ (result = "Timeout" /\ StallWarning)
                      THEN time ELSE now
            /\ warnings' = IF result = "Timeout" /\ StallWarning
                           THEN warnings + 1 ELSE warnings
            /\ pc' = "loop_top"
            /\ result' = "none"
            /\ ClearLocals
            /\ UNCHANGED exitCause
    /\ UNCHANGED <<exit, r, retransmit, blocktree, blocktree_uid, nsent,
                   call, svc, walk, time, last_recv>>
    /\ UNCHANGED env

\* mutant: the worker has no Finalizer; the thread just ends
FinalizerDrop_NoStore ==
    /\ pc = "unwinding"
    /\ pc' = "exited"
    /\ UNCHANGED <<exit, r, retransmit, blocktree, blocktree_uid, result,
                   exitCause, errors, nsent, call, svc, walk, clock>>
    /\ UNCHANGED locals
    /\ UNCHANGED env

\* impl Drop for Finalizer: exit_sender.store(true, Relaxed); the thread ends
FinalizerDrop ==
    /\ pc = "unwinding"
    /\ exit' = TRUE
    /\ pc' = "exited"
    /\ UNCHANGED <<r, retransmit, blocktree, blocktree_uid, result,
                   exitCause, errors, nsent, call, svc, walk, clock>>
    /\ UNCHANGED locals
    /\ UNCHANGED env

Worker ==
    \/ WorkerStart
    \/ LoopTop
    \/ RecvTimeout
    \/ TryRecv
    \/ ParallelStage
    \/ Unzip
    \/ RetainPackets
    \/ SendRetransmit
    \/ InsertShreds
    \/ Dispatch
    \/ FinalizerDrop

Environment ==
    \/ ProducerSend
    \/ ProducerClose
    \/ ConsumerDrop
    \/ ExternalSetExit
    \/ SetWorkingBank

Next == Worker \/ Environment

Spec == Init /\ [][Next]_vars

\* the operating system schedules the worker thread: a step it can take is
\* eventually taken (recv_timeout returns after 200 ms at the latest)
FairSpec == Spec /\ WF_vars(Worker)

----------------------------------------------------------------------------
(* The repair service and WindowService::join *)

\* the repair thread sees the exit flag and ends
RepairExit ==
    /\ repair_service = "running"
    /\ exit
    /\ repair_service' = "done"
    /\ UNCHANGED <<exit, r, retransmit, blocktree, blocktree_uid, pc, result,
                   exitCause, errors, nsent, call, join_pc, join_ret, clock,
                   walk>>
    /\ UNCHANGED locals
    /\ UNCHANGED env

\* the repair thread panics
RepairPanic ==
    /\ repair_service = "running"
    /\ repair_service' = "panicked"
    /\ UNCHANGED <<exit, r, retransmit, blocktree, blocktree_uid, pc, result,
                   exitCause, errors, nsent, call, join_pc, join_ret, clock,
                   walk>>
    /\ UNCHANGED locals
    /\ UNCHANGED env

\* the owner of the service calls join(self)
JoinCall ==
    /\ join_pc = "idle"
    /\ join_pc' = "t_window"
    /\ UNCHANGED <<exit, r, retransmit, blocktree, blocktree_uid, pc, result,
                   exitCause, errors, nsent, call, repair_service, join_ret,
                   clock, walk>>
    /\ UNCHANGED locals
    /\ UNCHANGED env

\* self.t_window.join()?  returns once the worker thread has ended: Err if it
\* panicked, and then `?` returns that Err from join
JoinWindow ==
    /\ join_pc = "t_window"
    /\ pc = "exited"
    /\ IF exitCause = "panic"
       THEN /\ join_pc' = "returned"
            /\ join_ret' = "Err"
       ELSE /\ join_pc' = "repair_service"
            /\ UNCHANGED join_ret
    /\ UNCHANGED <<exit, r, retransmit, blocktree, blocktree_uid, pc, result,
                   exitCause, errors, nsent, call, repair_service, clock,
                   walk>>
    /\ UNCHANGED locals
    /\ UNCHANGED env

\* self.repair_service.join()  returns once the repair thread has ended
JoinRepair ==
    /\ join_pc = "repair_service"
    /\ repair_service # "running"
    /\ join_pc' = "returned"
    /\ join_ret' = IF repair_service = "panicked" THEN "Err" ELSE "Ok"
    /\ UNCHANGED <<exit, r, retransmit, blocktree, blocktree_uid, pc, result,
                   exitCause, errors, nsent, call, repair_service, clock,
                   walk>>
    /\ UNCHANGED locals
    /\ UNCHANGED env

Service ==
    \/ RepairExit
    \/ RepairPanic
    \/ JoinCall
    \/ JoinWindow
    \/ JoinRepair

JoinNext == Next \/ Service

\* the service together with its repair thread and the caller of join
JoinSpec == Init /\ [][JoinNext]_vars

\* the service, its repair thread and the caller of join, with the worker
\* thread and the repair thread scheduled
FairJoinSpec == JoinSpec /\ WF_vars(Worker) /\ WF_vars(RepairExit)

----------------------------------------------------------------------------
(* Time *)

\* time passes, at any point of the worker's loop
Tick ==
    /\ time + TickSecs <= MaxTime
    /\ time' = time + TickSecs
    /\ UNCHANGED <<exit, r, retransmit, blocktree, blocktree_uid, pc, result,
                   exitCause, errors, nsent, call, svc, walk, now, last_recv,
                   warnings>>
    /\ UNCHANGED locals
    /\ UNCHANGED env

ClockNext == Next \/ Tick

\* the service with the passing of time
ClockSpec == Init /\ [][ClockNext]_vars

----------------------------------------------------------------------------
(* should_retransmit_and_persist on its own: every input, call after call, *)
(* with the counters it has emitted so far                                 *)

\* the seed plays no part in the filter
FilterShreds == {s \in Shreds : s.seed = 1}
FilterBufs == {ZeroData} \cup {Serialize(s) : s \in FilterShreds}
BankOptions == {NoBank} \cup {SomeBank(b) : b \in Banks}

\* the inputs of one call
CallInputs ==
    [shred : FilterShreds, shred_buf : FilterBufs, bank : BankOptions,
     my_pubkey : Keys]

\* a call about to be made with the inputs in, after n earlier calls of which
\* nself were given a shred of a slot the caller itself leads
PendingCall(in, n, nself, emitted) ==
    [st |-> "pending", shred |-> in.shred, shred_buf |-> in.shred_buf,
     bank |-> in.bank, my_pubkey |-> in.my_pubkey, ret |-> FALSE,
     counter |-> "none", n |-> n, nself |-> nself, emitted |-> emitted]

Counters == {"circular_transmission", "invalid_signature", "unknown_leader"}

\* inc_new_counter_debug!(name, 1)
IncCounter(emitted, name) ==
    IF name \in Counters THEN [emitted EXCEPT ![name] = @ + 1] ELSE emitted

FilterInit ==
    /\ InitBase
    /\ \E in \in CallInputs :
          call = PendingCall(in, 0, 0, [c \in Counters |-> 0])
    /\ walk = IdleWalk

ApplyFilter ==
    /\ call.st = "pending"
    /\ LET out == should_retransmit_and_persist(call.shred, call.shred_buf,
                                                call.bank, call.my_pubkey)
           self == slot_leader_at(ShredSlot(call.shred), call.bank)
                       = call.my_pubkey
       IN
       call' = [call EXCEPT !.st = "returned", !.ret = out.ret,
                            !.counter = out.counter,
                            !.n = @ + 1,
                            !.nself = IF self THEN @ + 1 ELSE @,
                            !.emitted = IncCounter(@, out.counter)]
    /\ UNCHANGED <<exit, r, retransmit, blocktree, blocktree_uid, pc, result,
                   exitCause, errors, nsent, svc, walk, clock>>
    /\ UNCHANGED locals
    /\ UNCHANGED env

\* the same node goes on to its next packet: a shred with the bytes it was
\* decoded from, or with bytes that are not its own
NextCall ==
    /\ call.st = "returned"
    /\ call.n < MaxCalls
    /\ \E sh \in FilterShreds, b \in BankOptions, own \in BOOLEAN :
          call' = PendingCall(
                      [shred |-> sh,
                       shred_buf |-> IF own THEN Serialize(sh) ELSE ZeroData,
                       bank |-> b, my_pubkey |-> call.my_pubkey],
                      call.n, call.nself, call.emitted)
    /\ UNCHANGED <<exit, r, retransmit, blocktree, blocktree_uid, pc, result,
                   exitCause, errors, nsent, svc, walk, clock>>
    /\ UNCHANGED locals
    /\ UNCHANGED env

FilterNext == ApplyFilter \/ NextCall

FilterSpec == FilterInit /\ [][FilterNext]_vars

----------------------------------------------------------------------------
(* The retain-by-index walk on its own: every batch length, every set of   *)
(* surviving indices, one closure call per step                            *)

\* the elements of a set of numbers in increasing order
RECURSIVE SortedSeq(_)
SortedSeq(S) ==
    IF S = {} THEN <<>>
    ELSE LET m == CHOOSE x \in S : \A y \in S : x <= y IN
         <<m>> \o SortedSeq(S \ {m})

\* what the unzip can leave: a batch of n packets and the indices, counted
\* from 0 and in increasing order, of those that survived
WalkInputs ==
    UNION {{[pk |-> NewBatch([k \in 1..n |-> ZeroData], 0),
             ix |-> SortedSeq(S)] : S \in SUBSET (0..(n - 1))}
           : n \in 0..MaxWalkLen}

\* let mut retain_ix = 0; let mut i = 0;
RetainInit ==
    /\ InitBase
    /\ call = IdleCall
    /\ \E in \in WalkInputs :
          walk = [st |-> "walking", pk |-> in.pk, ix |-> in.ix, i |-> 0,
                  retain_ix |-> 0, read |-> -1, kept |-> <<>>]

\* mutant: the cursor is advanced without the clamp at packets_ix.len() - 1
RetainStep_NoClamp ==
    /\ walk.st = "walking"
    /\ walk.i < Len(walk.pk)
    /\ LET retain == walk.ix # <<>> /\ walk.i = walk.ix[walk.retain_ix + 1] IN
       walk' = [walk EXCEPT
                   !.read = IF walk.ix # <<>> THEN walk.retain_ix ELSE -1,
                   !.retain_ix = IF retain THEN @ + 1 ELSE @,
                   !.kept = IF retain THEN Append(@, walk.pk[walk.i + 1])
                            ELSE @,
                   !.i = @ + 1]
    /\ UNCHANGED <<exit, r, retransmit, blocktree, blocktree_uid, pc, result,
                   exitCause, errors, nsent, call, svc, clock>>
    /\ UNCHANGED locals
    /\ UNCHANGED env

\* one call of the closure given to packets.packets.retain: packets_ix is
\* read at the cursor only when it is not empty
RetainStep ==
    /\ walk.st = "walking"
    /\ walk.i < Len(walk.pk)
    /\ LET retain == walk.ix # <<>> /\ walk.i = walk.ix[walk.retain_ix + 1] IN
       walk' = [walk EXCEPT
                   !.read = IF walk.ix # <<>> THEN walk.retain_ix ELSE -1,
                   !.retain_ix = IF retain
                                 THEN Min(Len(walk.ix) - 1, @ + 1) ELSE @,
                   !.kept = IF retain THEN Append(@, walk.pk[walk.i + 1])
                            ELSE @,
                   !.i = @ + 1]
    /\ UNCHANGED <<exit, r, retransmit, blocktree, blocktree_uid, pc, result,
                   exitCause, errors, nsent, call, svc, clock>>
    /\ UNCHANGED locals
    /\ UNCHANGED env

\* retain has visited every packet
RetainEnd ==
    /\ walk.st = "walking"
    /\ walk.i = Len(walk.pk)
    /\ walk' = [walk EXCEPT !.st = "done"]
    /\ UNCHANGED <<exit, r, retransmit, blocktree, blocktree_uid, pc, result,
                   exitCause, errors, nsent, call, svc, clock>>
    /\ UNCHANGED locals
    /\ UNCHANGED env

RetainNext == RetainStep \/ RetainEnd

RetainSpec == RetainInit /\ [][RetainNext]_vars

----------------------------------------------------------------------------
(* Vocabulary of the properties *)

\* recv_window is past the retention of line 105..114
AfterRetain == pc \in {"send", "insert"} \/ (pc = "dispatch" /\ insertCalled)

\* recv_window has returned from insert_shreds
Returned == pc = "dispatch" /\ insertCalled

\* the banks the filter closure can have read during this invocation
BanksRead ==
    IF bank_forks = "some" THEN {SomeBank(b) : b \in 0..working_bank}
    ELSE {NoBank}

\* the closure's result on packet i agrees with decoding and the filter
VerdictSound(i) ==
    LET d == batch0[i].data IN
    IF verdict[i].st = "some"
    THEN /\ DeserializeOk(d)
         /\ verdict[i].shred = Deserialize(d)
         /\ \E b \in BanksRead : shred_filter(id, Deserialize(d), d, b)
    ELSE \/ ~DeserializeOk(d)
         \/ \E b \in BanksRead : ~shred_filter(id, Deserialize(d), d, b)

\* the positions of the retained batch that hold the packet of index i
PosOf(i) == {k \in 1..Len(packets) : packets[k].uid = batch0[i].uid}

IsPrefix(p, q) == Len(p) <= Len(q) /\ SubSeq(q, 1, Len(p)) = p
IsSuffix(p, q) ==
    Len(p) <= Len(q) /\ SubSeq(q, Len(q) - Len(p) + 1, Len(q)) = p

\* the packets of a sequence of batches, in order
RECURSIVE Flatten(_)
Flatten(bs) == IF bs = <<>> THEN <<>> ELSE Head(bs) \o Flatten(Tail(bs))

Uids(pk) == [k \in 1..Len(pk) |-> pk[k].uid]

StrictlyIncreasing(q) == \A a, b \in 1..Len(q) : a < b => q[a] < q[b]

\* every element of p is below every element of q
AllBelow(p, q) == \A a \in 1..Len(p) : \A b \in 1..Len(q) : p[a] < q[b]

\* the uids of the batch the invocation in progress holds
HeldUids == IF pc \in {"drain", "filter", "retain"} THEN Uids(packets)
            ELSE Uids(batch0)

\* recv_window holds a received batch and has not returned yet
MidBatch == pc \in {"drain", "filter", "retain", "send", "insert"}

\* the stage that follows each stage of recv_window
NextStage(p) ==
    CASE p = "drain" -> "filter"
      [] p = "filter" -> "retain"
      [] p = "retain" -> "send"
      [] p = "send" -> "insert"
      [] p = "insert" -> "dispatch"

\* the working banks a left-to-right pass over n packets can read, one after
\* the other, while the view moves from bank 0 to the present one
SequentialReads(n) ==
    {f \in [1..n -> 0..working_bank] : \A a, b \in 1..n : a < b => f[a] <= f[b]}

\* the outcome of the filter_map closure on each packet of the batch in a
\* sequential pass that made the bank reads f
SequentialPass(f) ==
    [i \in 1..Len(batch0) |->
        FilterMap(batch0[i],
                  IF bank_forks = "some" THEN SomeBank(f[i]) ELSE NoBank)]

WorkerExited == pc \in {"unwinding", "exited"}
Running == ~WorkerExited

----------------------------------------------------------------------------
(* Properties *)

\* C1: after the retention, the packet batch and the shred sequence have the
\* same length, the k-th retained packet is the packet the k-th shred was
\* decoded from, and its meta.slot and meta.seed are that shred's slot and
\* seed; the shred sequence is what insert_shreds receives and the batch is
\* what a successful send delivers.
C1_RetainedAlignedWithShreds ==
    AfterRetain =>
        /\ Len(packets) = Len(shreds)
        /\ Len(packets_ix) = Len(shreds)
        /\ \A k \in 1..Len(packets) :
              /\ packets[k].uid = batch0[packets_ix[k] + 1].uid
              /\ packets[k].data = batch0[packets_ix[k] + 1].data
              /\ DeserializeOk(packets[k].data)
              /\ shreds[k] = Deserialize(packets[k].data)
              /\ packets[k].meta.slot = ShredSlot(shreds[k])
              /\ packets[k].meta.seed = ShredSeed(shreds[k])
        /\ Returned => insertArg = shreds
        /\ sendResult = "ok" => retransmit[Len(retransmit)] = packets

C1_Witness ==
    /\ pc = "send"
    /\ Len(batch0) = 2
    /\ packets_ix = <<1>>
    /\ Len(packets) = 1
    /\ packets[1].meta.seed = 2

\* C2: two packets of the coalesced batch that both survive keep their
\* order in the batch given to the retransmit sender, and so do their shreds
\* in the sequence given to insert_shreds.
C2_ReceiveOrderPreserved ==
    Returned =>
        \A i, j \in 1..Len(batch0) :
            (i < j /\ verdict[i].st = "some" /\ verdict[j].st = "some") =>
                \E a, b \in 1..Len(packets) :
                    /\ a < b
                    /\ b <= Len(insertArg)
                    /\ packets[a].uid = batch0[i].uid
                    /\ packets[b].uid = batch0[j].uid
                    /\ insertArg[a] = verdict[i].shred
                    /\ insertArg[b] = verdict[j].shred
                    /\ sendResult = "ok" =>
                          /\ retransmit[Len(retransmit)][a].uid = batch0[i].uid
                          /\ retransmit[Len(retransmit)][b].uid = batch0[j].uid

C2_Witness ==
    /\ Returned
    /\ sendResult = "ok"
    /\ Len(batch0) = 2
    /\ verdict[1].st = "some"
    /\ verdict[2].st = "some"
    /\ insertArg[1] # insertArg[2]

\* C3: a packet of the coalesced batch is kept, and its shred handed to
\* insert_shreds, exactly when its data deserializes and the filter accepted
\* the shred with the packet's bytes; every other packet is dropped, wherever
\* it stands.
C3_KeptIffDecodedAndAccepted ==
    AfterRetain =>
        /\ Len(verdict) = Len(batch0)
        /\ \A i \in 1..Len(batch0) :
              /\ VerdictSound(i)
              /\ (PosOf(i) # {}) <=> (verdict[i].st = "some")
              /\ \A k \in PosOf(i) :
                    /\ k <= Len(shreds)
                    /\ shreds[k] = verdict[i].shred
        /\ \A k \in 1..Len(packets) :
              \E i \in 1..Len(batch0) : k \in PosOf(i)
        /\ Returned => Len(insertArg) = Len(packets)

C3_Witness ==
    /\ Returned
    /\ Len(batch0) = 2
    /\ verdict[1].st = "some"
    /\ DeserializeOk(batch0[2].data)
    /\ verdict[2].st = "none"
    /\ Len(packets) = 1

\* C4: should_retransmit_and_persist returns true exactly when the oracle,
\* asked with the bank given (or with none), knows a leader of the shred's
\* slot, that leader is not the node itself and fast_verify of the raw bytes
\* against that leader succeeds.
C4_FilterDecision ==
    call.st = "returned" =>
        LET leader == slot_leader_at(ShredSlot(call.shred), call.bank) IN
        call.ret <=>
            /\ leader # NoLeader
            /\ leader # call.my_pubkey
            /\ FastVerify(call.shred, call.shred_buf, leader)

C4_Witness ==
    /\ call.st = "returned"
    /\ call.ret
    /\ call.bank = SomeBank(1)
    /\ ShredSlot(call.shred) = 2
    /\ slot_leader_at(2, NoBank) = NoLeader

\* C5: whenever the worker thread has terminated the exit flag is true, by
\* whichever way it left (flag seen, channel disconnected, panic), and no
\* step ever writes false to the flag.
C5_ExitFlagSetOnTermination ==
    /\ [](pc = "exited" => exit)
    /\ [][exit => exit']_vars

C5_Witness == pc = "exited" /\ exitCause = "panic" /\ r # <<>>

\* C6: once the worker has seen the exit flag at the top of its loop, it
\* takes nothing more from the inbound channel, sends nothing more to the
\* retransmit sink and inserts nothing more; queued batches stay queued.
C6_NoWorkAfterExitObserved ==
    [][exitCause = "exit_flag" =>
          /\ IsPrefix(r, r')
          /\ retransmit' = retransmit
          /\ blocktree' = blocktree
          /\ ~insertCalled'
          /\ pc' \notin {"recv", "drain", "send", "insert"}]_vars

C6_Witness ==
    /\ pc = "exited"
    /\ exitCause = "exit_flag"
    /\ r # <<>>
    /\ Head(r) # <<>>
    /\ retransmit # <<>>

\* C7: once the exit flag is set while the worker runs, the worker
\* eventually terminates, whatever the upstream producer does.
C7_ShutdownLiveness == (exit /\ Running) ~> (pc = "exited")

\* C8: when the retransmit send fails, insert_shreds is still called with
\* all surviving shreds, recv_window returns what the insert returned, and
\* the worker goes on to its next iteration.
C8_SendFailureIgnored ==
    /\ [](pc = "dispatch" /\ sendResult = "err" =>
             /\ insertCalled
             /\ insertArg # <<>>
             /\ insertArg = UnzipShreds(verdict, Len(verdict))
             /\ result \in {"Ok", "BlocktreeError"}
             /\ result = "Ok" => IsSuffix(insertArg, blocktree))
    /\ [][(pc = "insert" /\ sendResult = "err" /\ pc' # pc) =>
             /\ pc' = "dispatch"
             /\ result' = IF blocktree' = blocktree \o shreds
                          THEN "Ok" ELSE "BlocktreeError"]_vars
    /\ [][(pc = "dispatch" /\ sendResult = "err" /\ pc' # pc) =>
             pc' = "loop_top"]_vars

C8_Witness ==
    /\ pc = "dispatch"
    /\ sendResult = "err"
    /\ result = "Ok"
    /\ Len(insertArg) = 2
    /\ IsSuffix(insertArg, blocktree)

\* C9: on an error of insert_shreds the worker counts it and goes back to
\* the top of its loop, leaving the exit flag alone; the loop is left only
\* by the exit flag seen at its top or by Disconnected.
C9_BlockstoreErrorContinues ==
    /\ [][(pc = "dispatch" /\ result = "BlocktreeError" /\ pc' # pc) =>
             /\ pc' = "loop_top"
             /\ errors' = errors + 1
             /\ exit' = exit
             /\ exitCause' = "none"]_vars
    /\ [][(Running /\ WorkerExited' /\ exitCause' # "panic") =>
             \/ pc = "loop_top" /\ exit /\ exitCause' = "exit_flag"
             \/ pc = "dispatch" /\ result = "Disconnected"
                                /\ exitCause' = "disconnected"]_vars

C9_Witness == pc = "recv" /\ errors >= 1 /\ ~exit /\ senderAlive

\* C10 as stated: the worker leaves Running for Exited on the exit flag seen
\* at the loop top, on Disconnected, and on a block-store error; it stays
\* Running on a successful or Timeout iteration; Exited is terminal.
C10_Original ==
    [][/\ (pc = "loop_top" /\ exit /\ pc' # pc) => WorkerExited'
       /\ (pc = "dispatch" /\ result = "Disconnected" /\ pc' # pc)
             => WorkerExited'
       /\ (pc = "dispatch" /\ result = "BlocktreeError" /\ pc' # pc)
             => WorkerExited'
       /\ (pc = "dispatch" /\ result \in {"Ok", "Timeout"} /\ pc' # pc)
             => (Running' /\ pc' = "loop_top")
       /\ WorkerExited => WorkerExited'
       /\ pc = "exited" => pc' = "exited"]_vars

\* C10 amended: the worker leaves Running for Exited on the exit flag seen at
\* the loop top and on Disconnected; it stays Running on a successful, a
\* Timeout and a block-store-error iteration; Exited is terminal.
C10_WorkerStateMachine ==
    [][/\ (pc = "loop_top" /\ exit /\ pc' # pc) => WorkerExited'
       /\ (pc = "dispatch" /\ result = "Disconnected" /\ pc' # pc)
             => WorkerExited'
       /\ (pc = "dispatch" /\ result \in {"Ok", "Timeout", "BlocktreeError"}
             /\ pc' # pc) => (Running' /\ pc' = "loop_top")
       /\ WorkerExited => WorkerExited'
       /\ pc = "exited" => pc' = "exited"]_vars

C10_Witness ==
    /\ pc = "exited"
    /\ exitCause = "disconnected"
    /\ errors >= 1
    /\ retransmit # <<>>


\* C11: when recv_timeout finds the inbound channel idle (and connected),
\* recv_window returns Timeout having sent nothing to retransmit and inserted
\* nothing; the worker then goes back to the top of its loop, with the exit
\* flag and the error counter as they were.
C11_TimeoutRecoverable ==
    /\ [][(pc = "recv" /\ r = <<>> /\ senderAlive /\ pc' # pc) =>
             /\ result' = "Timeout"
             /\ pc' = "dispatch"
             /\ retransmit' = retransmit
             /\ blocktree' = blocktree]_vars
    /\ [](result = "Timeout" =>
             /\ pc = "dispatch"
             /\ sendResult = "none"
             /\ ~insertCalled
             /\ batch0 = <<>>)
    /\ [][(pc = "dispatch" /\ result = "Timeout" /\ pc' # pc) =>
             /\ pc' = "loop_top"
             /\ Running'
             /\ exit' = exit
             /\ errors' = errors
             /\ retransmit' = retransmit
             /\ blocktree' = blocktree]_vars

C11_Witness ==
    /\ pc = "dispatch"
    /\ result = "Timeout"
    /\ ~exit
    /\ retransmit # <<>>
    /\ blocktree # <<>>

\* C12: no batch delivered to the retransmit sink is empty; when no packet
\* of the coalesced batch survives (the batch is empty, or every packet is
\* malformed or rejected) the invocation sends nothing, leaves the block
\* store as it was and returns Ok; when a packet survives the send is
\* attempted exactly once.
C12_NoEmptyRetransmit ==
    /\ [](\A k \in 1..Len(retransmit) : retransmit[k] # <<>>)
    /\ [](Returned =>
             /\ (sendResult = "none") <=> (packets = <<>>)
             /\ (\A i \in 1..Len(verdict) : verdict[i].st # "some") =>
                   /\ sendResult = "none"
                   /\ insertArg = <<>>
                   /\ result = "Ok")
    /\ [][(pc = "insert" /\ shreds = <<>> /\ pc' # pc) =>
             /\ blocktree' = blocktree
             /\ result' = "Ok"]_vars
    /\ [][(pc = "send" /\ packets # <<>> /\ pc' # pc) =>
             /\ sendResult' \in {"ok", "err"}
             /\ retransmitOpen => retransmit' = Append(retransmit, packets)]_vars
    /\ [][retransmit' # retransmit =>
             /\ pc = "send"
             /\ pc' = "insert"
             /\ sendResult = "none"
             /\ sendResult' = "ok"
             /\ retransmit' = Append(retransmit, packets)]_vars

C12_Witness ==
    /\ Returned
    /\ Len(batch0) = 2
    /\ \A i \in 1..2 : DeserializeOk(batch0[i].data) /\ verdict[i].st = "none"
    /\ retransmitOpen
    /\ sendResult = "none"
    /\ result = "Ok"


\* C13: the one worker takes batches from the inbound channel at its head,
\* one per receive, and appends each drained batch behind the packets it
\* already holds; packets are numbered in the order they were sent, and the
\* packets forwarded to retransmit, as well as the packets whose shreds the
\* block store accepted, appear in strictly increasing number, each behind
\* everything forwarded or stored by earlier invocations and ahead of
\* everything still queued.
C13_FifoOneAtATime ==
    /\ [][r' # r =>
             \/ /\ Len(r') = Len(r) + 1
                /\ SubSeq(r', 1, Len(r)) = r
                /\ pc' = pc /\ packets' = packets
             \/ /\ r # <<>>
                /\ r' = Tail(r)
                /\ \/ pc = "recv" /\ pc' = "drain" /\ packets' = Head(r)
                   \/ pc = "drain" /\ pc' = "drain"
                                   /\ packets' = packets \o Head(r)]_vars
    /\ [][(pc = "drain" /\ pc' = "filter") => batch0' = packets]_vars
    /\ [](/\ Uids(Flatten(r)) =
                [k \in 1..Len(Flatten(r)) |-> nsent - Len(Flatten(r)) + k]
          /\ StrictlyIncreasing(HeldUids)
          /\ StrictlyIncreasing(Uids(Flatten(retransmit)))
          /\ StrictlyIncreasing(blocktree_uid)
          /\ Len(blocktree_uid) = Len(blocktree)
          /\ \A k \in 1..Len(blocktree_uid) : blocktree_uid[k] \in 1..nsent
          /\ \A k \in 1..Len(Flatten(retransmit)) :
                Flatten(retransmit)[k].uid \in 1..nsent
          /\ AllBelow(HeldUids, Uids(Flatten(r)))
          /\ AllBelow(Uids(Flatten(retransmit)), Uids(Flatten(r)))
          /\ AllBelow(blocktree_uid, Uids(Flatten(r)))
          /\ pc \in {"drain", "filter", "retain", "send"} =>
                /\ AllBelow(Uids(Flatten(retransmit)), HeldUids)
                /\ AllBelow(blocktree_uid, HeldUids))

C13_Witness ==
    /\ Len(retransmit) = 2
    /\ blocktree_uid = <<1, 2>>
    /\ pc = "dispatch"

\* C14: join has returned only when both the worker thread and the repair
\* service have terminated, and it returned Err exactly when one of the two
\* panicked.
C14_JoinWaitsForBoth ==
    join_pc = "returned" =>
        /\ pc = "exited"
        /\ repair_service # "running"
        /\ (join_ret = "Err") <=>
              (exitCause = "panic" \/ repair_service = "panicked")


\* C15: insert_shreds is called only after the send of the same invocation
\* was attempted; each shred it receives was decoded from the packet at the
\* same position of the batch given to that send; so when the insert fails,
\* that batch has already been handed to the retransmit sender (and delivered
\* if the channel was open).
C15_SendBeforeInsert ==
    /\ [][(pc = "insert" /\ pc' # pc) =>
             /\ insertCalled' /\ ~insertCalled
             /\ insertArg' = shreds
             /\ retransmit' = retransmit
             /\ Len(shreds) = Len(packets)
             /\ \A k \in 1..Len(shreds) :
                   /\ DeserializeOk(packets[k].data)
                   /\ shreds[k] = Deserialize(packets[k].data)
             /\ shreds # <<>> => sendResult \in {"ok", "err"}
             /\ sendResult = "ok" => retransmit[Len(retransmit)] = packets]_vars
    /\ [][(insertCalled' /\ ~insertCalled) => pc = "insert"]_vars
    /\ [][(pc' = "insert" /\ pc # "insert") => pc = "send"]_vars
    /\ [](result = "BlocktreeError" =>
             /\ insertCalled
             /\ insertArg # <<>>
             /\ sendResult \in {"ok", "err"}
             /\ sendResult = "ok" =>
                   /\ Len(retransmit[Len(retransmit)]) = Len(insertArg)
                   /\ \A k \in 1..Len(insertArg) :
                         insertArg[k] =
                             Deserialize(retransmit[Len(retransmit)][k].data))

C15_Witness ==
    /\ pc = "dispatch"
    /\ result = "BlocktreeError"
    /\ sendResult = "ok"
    /\ Len(retransmit[Len(retransmit)]) = 2
    /\ Len(insertArg) = 2
    /\ blocktree = <<>>


\* C16: with the exit flag set, an invocation that has received a batch
\* still goes from each stage to the next (drain, filter, retain, send,
\* insert, return), short only of a panic; it returns having filtered every
\* packet, attempted the send of a non-empty retained batch and called
\* insert_shreds; the flag makes the worker leave only at the loop top; and
\* once the drain has ended the invocation does complete.
C16_NoMidBatchAbort ==
    /\ [][(exit /\ MidBatch /\ pc' # pc) =>
             \/ pc' = NextStage(pc) /\ exitCause' = exitCause
             \/ pc = "filter" /\ exitCause' = "panic"]_vars
    /\ [][(exitCause' = "exit_flag" /\ exitCause # "exit_flag") =>
             pc = "loop_top" /\ exit]_vars
    /\ [](pc = "dispatch" /\ result \in {"Ok", "BlocktreeError"} =>
             /\ insertCalled
             /\ \A i \in 1..Len(verdict) : verdict[i] # Todo
             /\ insertArg = UnzipShreds(verdict, Len(verdict))
             /\ packets # <<>> => sendResult \in {"ok", "err"})
    /\ (exit /\ pc \in {"filter", "retain", "send", "insert"})
          ~> (Returned \/ exitCause = "panic")

C16_Witness ==
    /\ Returned
    /\ exit
    /\ exitCause = "none"
    /\ result = "Ok"
    /\ sendResult = "ok"
    /\ Len(insertArg) = 2
    /\ IsSuffix(insertArg, blocktree)


\* C17: with a bank-forks view (RepairAll), all the packets of one batch are
\* judged against one and the same working-bank snapshot: once the parallel
\* stage is over, there is a bank, among those the view held during the
\* iteration, under which every packet's outcome is the outcome recorded.
C17_OneBankPerIteration ==
    (bank_forks = "some" /\ pc = "retain") =>
        \E b \in BanksRead :
            \A i \in 1..Len(batch0) : verdict[i] = FilterMap(batch0[i], b)


\* C18: a step of the parallel stage records the outcome of one packet and
\* writes nothing but that packet's meta; the stage ends with strictly
\* increasing surviving indices, the k-th shred decoded from the packet at
\* the k-th index, and with the two sequences a sequential left-to-right
\* pass over the batch yields, whatever the order in which the pool took
\* the packets.
C18_ScheduleIndependent ==
    /\ [][(pc = "filter" /\ pc' = "filter" /\ verdict' # verdict) =>
             \E i \in 1..Len(verdict) :
                /\ verdict[i] = Todo /\ verdict'[i] # Todo
                /\ \A j \in 1..Len(verdict) : j # i =>
                      verdict'[j] = verdict[j] /\ packets'[j] = packets[j]
                /\ packets'[i].data = packets[i].data
                /\ packets'[i].uid = packets[i].uid
                /\ Len(packets') = Len(packets)
                /\ <<r, retransmit, blocktree, exit, errors>>' =
                      <<r, retransmit, blocktree, exit, errors>>]_vars
    /\ [](pc = "retain" =>
             /\ StrictlyIncreasing(packets_ix)
             /\ Len(shreds) = Len(packets_ix)
             /\ \A k \in 1..Len(shreds) :
                   shreds[k] = Deserialize(batch0[packets_ix[k] + 1].data)
             /\ \E f \in SequentialReads(Len(batch0)) :
                   /\ shreds = UnzipShreds(SequentialPass(f), Len(batch0))
                   /\ packets_ix = UnzipIx(SequentialPass(f), Len(batch0)))

\* C19: on a Timeout iteration the worker warns exactly when more than 30 s
\* have passed since it last took its Instant, and then takes it anew; an
\* iteration that returned Ok takes it anew without a warning; a warning is
\* emitted only when more than 30 s have passed since a batch was last
\* received (or since the start), so an ingest that receives a batch at
\* least every 30 s never warns.
C19_StallWarning ==
    /\ [][(pc = "dispatch" /\ result = "Timeout" /\ pc' # pc) =>
             IF time - now > StallSecs
             THEN warnings' = warnings + 1 /\ now' = time
             ELSE warnings' = warnings /\ now' = now]_vars
    /\ [][(pc = "dispatch" /\ result = "Ok" /\ pc' # pc) =>
             warnings' = warnings /\ now' = time]_vars
    /\ [][warnings' # warnings =>
             /\ pc = "dispatch" /\ result = "Timeout"
             /\ warnings' = warnings + 1
             /\ time - last_recv > StallSecs]_vars

\* C20: a call of should_retransmit_and_persist that returns true emits no
\* counter; one that returns false emits exactly one, by the first rule that
\* fails among unknown leader, self-origin (circular_transmission) and
\* signature; the call raises that counter by one and no other; a shred of
\* a slot the node itself leads counts as circular_transmission whatever its
\* signature, so after n calls with such shreds circular_transmission is n
\* and the other counters are as they were.
C20_OneCounterPerRejection ==
    /\ [](call.st = "returned" =>
             LET leader == slot_leader_at(ShredSlot(call.shred), call.bank) IN
             /\ call.ret <=> (call.counter = "none")
             /\ call.counter =
                   IF leader = NoLeader THEN "unknown_leader"
                   ELSE IF leader = call.my_pubkey
                        THEN "circular_transmission"
                   ELSE IF ~FastVerify(call.shred, call.shred_buf, leader)
                        THEN "invalid_signature"
                   ELSE "none"
             /\ call.emitted["circular_transmission"] = call.nself
             /\ call.nself = call.n =>
                   /\ call.emitted["invalid_signature"] = 0
                   /\ call.emitted["unknown_leader"] = 0)
    /\ [][(call.st = "pending" /\ call'.st = "returned") =>
             \A c \in Counters :
                call'.emitted[c] =
                    call.emitted[c] + (IF call'.counter = c THEN 1 ELSE 0)]_vars

C20_Witness ==
    /\ call.st = "returned"
    /\ call.n = 2
    /\ call.nself = 2
    /\ call.emitted["circular_transmission"] = 2
    /\ ~FastVerify(call.shred, call.shred_buf, call.my_pubkey)


\* C21: every invocation of recv_window terminates: once the worker has
\* entered recv_window (the first receive or the drain that follows it), it
\* comes to the point where recv_window returns, whatever the upstream
\* producer sends in the meantime.
C21_InvocationTerminates ==
    (pc \in {"recv", "drain"}) ~> (pc = "dispatch" \/ exitCause = "panic")


\* C22: after the upstream sender has closed the inbound channel, the worker
\* still takes every queued batch from the head of the channel into an
\* invocation; it sees Disconnected only on an empty, closed channel and
\* leaves its loop on it with nothing left queued and without a panic; the
\* worker does terminate, the exit flag is then true and stays true, and
\* the repair service, which reads the same flag, ends as well.
C22_DrainThenDisconnect ==
    /\ [][(~senderAlive /\ r' # r) =>
             /\ r # <<>> /\ r' = Tail(r)
             /\ \/ pc = "recv" /\ pc' = "drain" /\ packets' = Head(r)
                \/ pc = "drain" /\ pc' = "drain"
                                /\ packets' = packets \o Head(r)]_vars
    /\ [](result = "Disconnected" => r = <<>> /\ ~senderAlive /\ batch0 = <<>>)
    /\ [][(exitCause' = "disconnected" /\ exitCause # "disconnected") =>
             /\ pc = "dispatch" /\ result = "Disconnected"
             /\ pc' = "unwinding"]_vars
    /\ [](exitCause = "disconnected" =>
             /\ r = <<>>
             /\ ~senderAlive
             /\ WorkerExited
             /\ pc = "exited" => exit)
    /\ [][(pc = "exited" /\ exit) => exit']_vars
    /\ (~senderAlive) ~>
          (pc = "exited" /\ exit /\ repair_service # "running")

C22_Witness ==
    /\ pc = "exited"
    /\ exitCause = "disconnected"
    /\ exit
    /\ repair_service = "done"
    /\ Len(retransmit) = 2
    /\ Len(blocktree) = 2
    /\ errors = 0

\* C23: throughout the retain walk the cursor retain_ix is a valid index of
\* packets_ix whenever packets_ix is not empty, packets_ix is read only when
\* it is not empty and only at a valid index, and the packets kept so far
\* are exactly those at the surviving indices already passed, in order; so
\* no packet behind the last surviving index is kept, and the walk ends
\* with one packet per surviving index.
C23_RetainCursorValid ==
    walk.st # "idle" =>
        LET n == Len(walk.ix)
            passed == {k \in 1..n : walk.ix[k] < walk.i}
        IN
        /\ walk.retain_ix >= 0
        /\ n > 0 => walk.retain_ix <= n - 1
        /\ n = 0 => walk.retain_ix = 0 /\ walk.read = -1
        /\ walk.read # -1 => walk.read \in 0..(n - 1)
        /\ Len(walk.kept) = Cardinality(passed)
        /\ \A k \in passed : walk.kept[k] = walk.pk[walk.ix[k] + 1]
        /\ \A k \in 1..Len(walk.kept) :
              n > 0 /\ walk.kept[k].uid <= walk.ix[n] + 1
        /\ walk.st = "done" =>
              /\ Len(walk.kept) = n
              /\ walk.kept = Retain(walk.pk, walk.ix)

C23_Witness ==
    /\ walk.st = "done"
    /\ Len(walk.pk) = 4
    /\ walk.ix = <<0, 2>>
    /\ walk.retain_ix = 1
    /\ Len(walk.kept) = 2

====
